---- MODULE Spec2Model ----
(***************************************************************************)
(* A model of semanticjson/compare.py: hybrid_json_compare, the function   *)
(* that merges DeepDiff's structural diff of two JSON documents with a     *)
(* sentence-transformer similarity score for every changed string pair.    *)
(*                                                                         *)
(* Documents are top-level mappings from a key to a scalar.  A path is the *)
(* key's number k, standing for the opaque string root['k'].  A scalar is  *)
(* a record [type, val]: its Python type and its JSON literal text.        *)
(* Similarities and thresholds are in hundredths (0.9 is 90).              *)
(***************************************************************************)
EXTENDS Integers, Sequences, FiniteSets, TLC

\* ---------------------------------------------------------------- bounds

\* Number of keys a document may hold.
NumKeys == 2

Paths == 1..NumKeys

\* The strings of the documents (the test's "" and "LORETTA Inc" among them).
Strings == {"", "LORETTA Inc", "Acme Inc"}

\* The numbers of the documents, as JSON literals.
Numbers == {"1", "2"}

\* threshold=0.9, the default of hybrid_json_compare and of --threshold.
DefaultThreshold == 90

\* The thresholds a caller passes.
Thresholds == {DefaultThreshold, 95}

\* The scores the embedding model may give a pair of distinct strings.
Similarities == {20, 90, 95}

\* ---------------------------------------------------------------- values

Absent == [type |-> "absent", val |-> ""]

Value == [type : {"str"}, val : Strings] \cup [type : {"int"}, val : Numbers]

Document == [Paths -> Value \cup {Absent}]

EmptyMap == [p \in {} |-> p]

\* del m[k]
Del(m, k) == [q \in (DOMAIN m) \ {k} |-> m[q]]

\* m[k] = v
Put(m, k, v) == [q \in (DOMAIN m) \cup {k} |-> IF q = k THEN v ELSE m[q]]

\* The orders in which a mapping with key set S may list its items.
Orders(S) ==
    {s \in [1..Cardinality(S) -> S] :
        \A i, j \in 1..Cardinality(S) : i # j => s[i] # s[j]}

\* ------------------------------------------------- the structural diff

Both(j1, j2) == {p \in Paths : j1[p] # Absent /\ j2[p] # Absent}

Category(name, content, present) ==
    IF present THEN name :> content ELSE EmptyMap

\* DeepDiff(json1, json2) with its default options, on flat mappings: a key
\* of both documents whose values differ is a type change when the types
\* differ and a value change otherwise; a category with no entry is no key.
DeepDiff(j1, j2) ==
    LET changed == {p \in Both(j1, j2) :
                        j1[p].type = j2[p].type /\ j1[p].val # j2[p].val}
        retyped == {p \in Both(j1, j2) : j1[p].type # j2[p].type}
        added   == {p \in Paths : j1[p] = Absent /\ j2[p] # Absent}
        removed == {p \in Paths : j1[p] # Absent /\ j2[p] = Absent}
    IN  Category("values_changed",
                 [p \in changed |->
                     [old_value |-> j1[p], new_value |-> j2[p]]],
                 changed # {})
        @@ Category("type_changes",
                 [p \in retyped |->
                     [old_type |-> j1[p].type, new_type |-> j2[p].type,
                      old_value |-> j1[p], new_value |-> j2[p]]],
                 retyped # {})
        @@ Category("dictionary_item_added", added, added # {})
        @@ Category("dictionary_item_removed", removed, removed # {})

\* --------------------------------------------------- hybrid_json_compare

\* The loop body without its isinstance gate.
BothStringsUnchecked(old_val, new_val) == TRUE

\* isinstance(old_val, str) and isinstance(new_val, str)
BothStrings(old_val, new_val) == old_val.type = "str" /\ new_val.type = "str"

\* The threshold test written with > for >=.
MeetsThresholdStrict(similarity, th) == similarity > th

\* similarity >= threshold
MeetsThreshold(similarity, th) == similarity >= th

SemanticEntry(status, similarity, changes) ==
    [status |-> status, similarity |-> similarity,
     old_value |-> changes.old_value, new_value |-> changes.new_value]

\* The loop body with the del in both branches.
ClassifyAlwaysDeletes(sd, sem, path, changes, similarity, th) ==
    [sd  |-> [sd EXCEPT !["values_changed"] = Del(@, path)],
     sem |-> Put(sem, path,
                 SemanticEntry(IF MeetsThreshold(similarity, th)
                               THEN "Equivalent (semantically)"
                               ELSE "Changed (semantically different)",
                               similarity, changes))]

\* The loop body with the del left out.
ClassifyNeverDeletes(sd, sem, path, changes, similarity, th) ==
    [sd  |-> sd,
     sem |-> Put(sem, path,
                 SemanticEntry(IF MeetsThreshold(similarity, th)
                               THEN "Equivalent (semantically)"
                               ELSE "Changed (semantically different)",
                               similarity, changes))]

\* The loop body with the Equivalent branch rebinding semantic_diff to a
\* fresh dict holding the one entry, for semantic_diff[path] = ...
ClassifyOverwrites(sd, sem, path, changes, similarity, th) ==
    IF MeetsThreshold(similarity, th)
    THEN [sd  |-> [sd EXCEPT !["values_changed"] = Del(@, path)],
          sem |-> path :> SemanticEntry("Equivalent (semantically)",
                                        similarity, changes)]
    ELSE [sd  |-> sd,
          sem |-> Put(sem, path,
                      SemanticEntry("Changed (semantically different)",
                                    similarity, changes))]

\* The two branches under "if similarity >= threshold": the pair of
\* structural_diff and semantic_diff after them.
Classify(sd, sem, path, changes, similarity, th) ==
    IF MeetsThreshold(similarity, th)
    THEN [sd  |-> [sd EXCEPT !["values_changed"] = Del(@, path)],
          sem |-> Put(sem, path,
                      SemanticEntry("Equivalent (semantically)",
                                    similarity, changes))]
    ELSE [sd  |-> sd,
          sem |-> Put(sem, path,
                      SemanticEntry("Changed (semantically different)",
                                    similarity, changes))]

\* The clean-up left out.
CleanUpNever(sd) == sd

\* The clean-up written as structural_diff.clear().
CleanUpClears(sd) ==
    IF sd["values_changed"] = EmptyMap THEN EmptyMap ELSE sd

\* if not structural_diff["values_changed"]: del structural_diff["values_changed"]
CleanUp(sd) ==
    IF sd["values_changed"] = EmptyMap THEN Del(sd, "values_changed") ELSE sd

\* The return with the values_changed key always present.
ReturnValueKeepsCategory(sd, sem) ==
    [structural_diff |->
        IF "values_changed" \in DOMAIN sd
        THEN sd ELSE Put(sd, "values_changed", EmptyMap),
     semantic_diff |-> sem]

\* return {"structural_diff": ..., "semantic_diff": ...}
ReturnValue(sd, sem) == [structural_diff |-> sd, semantic_diff |-> sem]

\* The raise caught and the locals returned as they stand.
ResultOnErrorPartial(sd, sem) ==
    <<[structural_diff |-> sd, semantic_diff |-> sem]>>

\* What the caller receives when model loading or encoding raises: nothing,
\* no try/except stands between the raise and the caller.
ResultOnError(sd, sem) == << >>

\* ------------------------------------------------------------ the state

VARIABLES
    json1, json2,     \* the two parsed documents
    threshold,        \* the threshold argument
    pc,               \* the position in hybrid_json_compare
    structural_diff,  \* the local of that name
    semantic_diff,    \* the local of that name
    items,            \* what is left of list(values_changed.items())
    cos_sim,          \* the model's score of each pair scored so far
    encoded,          \* the paths model.encode was called for
    result            \* what the caller received: << >> or <<value>>

vars == <<json1, json2, threshold, pc, structural_diff, semantic_diff,
          items, cos_sim, encoded, result>>

Init ==
    /\ json1 \in Document
    /\ json2 \in Document
    /\ threshold \in Thresholds
    /\ pc = "start"
    /\ structural_diff = EmptyMap
    /\ semantic_diff = EmptyMap
    /\ items = << >>
    /\ cos_sim = EmptyMap
    /\ encoded = {}
    /\ result = << >>

\* structural_diff = DeepDiff(json1, json2)
StructuralCompare ==
    /\ pc = "start"
    /\ structural_diff' = DeepDiff(json1, json2)
    /\ pc' = "diffed"
    /\ UNCHANGED <<json1, json2, threshold, semantic_diff, items, cos_sim,
                   encoded, result>>

\* model = SentenceTransformer(...); semantic_diff = {}; the test of
\* "values_changed" in structural_diff and the snapshot of its items, in the
\* order the mapping lists them.
LoadModel ==
    /\ pc = "diffed"
    /\ semantic_diff' = EmptyMap
    /\ IF "values_changed" \in DOMAIN structural_diff
       THEN /\ items' \in Orders(DOMAIN structural_diff["values_changed"])
            /\ pc' = "loop"
       ELSE /\ items' = << >>
            /\ pc' = "return"
    /\ UNCHANGED <<json1, json2, threshold, structural_diff, cos_sim,
                   encoded, result>>

\* SentenceTransformer(...) raises.
LoadModelFails ==
    /\ pc = "diffed"
    /\ pc' = "raised"
    /\ result' = ResultOnError(structural_diff, semantic_diff)
    /\ UNCHANGED <<json1, json2, threshold, structural_diff, semantic_diff,
                   items, cos_sim, encoded>>

\* One pass of the loop body over an entry that is not a pair of strings.
SkipEntry ==
    /\ pc = "loop"
    /\ items # << >>
    /\ LET path    == Head(items)
           changes == structural_diff["values_changed"][path]
       IN  ~BothStrings(changes.old_value, changes.new_value)
    /\ items' = Tail(items)
    /\ UNCHANGED <<json1, json2, threshold, pc, structural_diff,
                   semantic_diff, cos_sim, encoded, result>>

\* One pass of the loop body over a pair of strings: both are encoded, the
\* model scores the pair (a pair it scored before gets the same score) and
\* the entry is classified.
ScoreEntry ==
    /\ pc = "loop"
    /\ items # << >>
    /\ LET path    == Head(items)
           changes == structural_diff["values_changed"][path]
           pair    == {changes.old_value.val, changes.new_value.val}
       IN  /\ BothStrings(changes.old_value, changes.new_value)
           /\ \E similarity \in Similarities :
                /\ pair \in DOMAIN cos_sim => similarity = cos_sim[pair]
                /\ cos_sim' = Put(cos_sim, pair, similarity)
                /\ LET c == Classify(structural_diff, semantic_diff, path,
                                     changes, similarity, threshold)
                   IN  /\ structural_diff' = c.sd
                       /\ semantic_diff' = c.sem
           /\ encoded' = encoded \cup {path}
    /\ items' = Tail(items)
    /\ UNCHANGED <<json1, json2, threshold, pc, result>>

\* model.encode raises on a pair of strings.
EncodeFails ==
    /\ pc = "loop"
    /\ items # << >>
    /\ LET path    == Head(items)
           changes == structural_diff["values_changed"][path]
       IN  /\ BothStrings(changes.old_value, changes.new_value)
           /\ encoded' = encoded \cup {path}
    /\ pc' = "raised"
    /\ result' = ResultOnError(structural_diff, semantic_diff)
    /\ UNCHANGED <<json1, json2, threshold, structural_diff, semantic_diff,
                   items, cos_sim>>

\* The loop is over: the empty category is dropped.
EndLoop ==
    /\ pc = "loop"
    /\ items = << >>
    /\ structural_diff' = CleanUp(structural_diff)
    /\ pc' = "return"
    /\ UNCHANGED <<json1, json2, threshold, semantic_diff, items, cos_sim,
                   encoded, result>>

Return ==
    /\ pc = "return"
    /\ result' = <<ReturnValue(structural_diff, semantic_diff)>>
    /\ pc' = "returned"
    /\ UNCHANGED <<json1, json2, threshold, structural_diff, semantic_diff,
                   items, cos_sim, encoded>>

Next ==
    \/ StructuralCompare
    \/ LoadModel
    \/ LoadModelFails
    \/ SkipEntry
    \/ ScoreEntry
    \/ EncodeFails
    \/ EndLoop
    \/ Return

Spec == Init /\ [][Next]_vars

\* ------------------------------------------------------------ the claims

\* What DeepDiff produced, before the loop touched it.
Original == DeepDiff(json1, json2)

ValuesChanged(sd) ==
    IF "values_changed" \in DOMAIN sd THEN sd["values_changed"] ELSE EmptyMap

OriginalChanged == ValuesChanged(Original)

Returned == pc = "returned"

\* The value hybrid_json_compare returned.
Out == result[1]

RemainingChanged == ValuesChanged(Out.structural_diff)

StringPair(changes) ==
    changes.old_value.type = "str" /\ changes.new_value.type = "str"

PairOf(changes) == {changes.old_value.val, changes.new_value.val}

Scored(changes) == PairOf(changes) \in DOMAIN cos_sim

Score(changes) == cos_sim[PairOf(changes)]

HasStatus(sem, p, status) ==
    /\ p \in DOMAIN sem
    /\ sem[p].status = status

\* Equality of two structural diffs, category by category.
SameDiff(a, b) ==
    /\ DOMAIN a = DOMAIN b
    /\ \A c \in DOMAIN a : a[c] = b[c]

\* C1: in the returned value, every string entry of values_changed scored at
\* or above the threshold is in semantic_diff as Equivalent, with its old
\* and new values, and is no longer under values_changed.
C1_EquivalentMoved ==
    Returned =>
        \A p \in DOMAIN OriginalChanged :
            LET ch == OriginalChanged[p]
            IN  (StringPair(ch) /\ Scored(ch) /\ Score(ch) >= threshold) =>
                    /\ HasStatus(Out.semantic_diff, p,
                                 "Equivalent (semantically)")
                    /\ Out.semantic_diff[p].old_value = ch.old_value
                    /\ Out.semantic_diff[p].new_value = ch.new_value
                    /\ Out.semantic_diff[p].similarity = Score(ch)
                    /\ p \notin DOMAIN RemainingChanged

\* C1 witness: a returned run with an entry scored exactly at the threshold.
C1_Witness ==
    /\ Returned
    /\ \E p \in DOMAIN OriginalChanged :
            /\ StringPair(OriginalChanged[p])
            /\ Scored(OriginalChanged[p])
            /\ Score(OriginalChanged[p]) = threshold
            /\ HasStatus(Out.semantic_diff, p, "Equivalent (semantically)")

StillStructural(p) ==
    p \in DOMAIN RemainingChanged /\ p \notin DOMAIN Out.semantic_diff

OnlyChanged(p) ==
    /\ p \notin DOMAIN RemainingChanged
    /\ HasStatus(Out.semantic_diff, p, "Changed (semantically different)")

OnlyEquivalent(p) ==
    /\ p \notin DOMAIN RemainingChanged
    /\ HasStatus(Out.semantic_diff, p, "Equivalent (semantically)")

\* A Changed entry as the code leaves it: under values_changed and in
\* semantic_diff.
ChangedInBoth(p) ==
    /\ p \in DOMAIN RemainingChanged
    /\ HasStatus(Out.semantic_diff, p, "Changed (semantically different)")

Count(a, b, c) ==
    (IF a THEN 1 ELSE 0) + (IF b THEN 1 ELSE 0) + (IF c THEN 1 ELSE 0)

C4_TestExpectation ==
    (Returned /\ \E p \in DOMAIN RemainingChanged :
                    StringPair(RemainingChanged[p]))
        => Out.semantic_diff = EmptyMap

\* C5: an entry of values_changed that is not a pair of strings is never in
\* semantic_diff, is never encoded, and is returned under values_changed
\* with the old and new values DeepDiff gave it.
C5_NonStringUntouched ==
    pc # "start" =>
        \A p \in DOMAIN OriginalChanged :
            ~StringPair(OriginalChanged[p]) =>
                /\ p \notin DOMAIN semantic_diff
                /\ p \notin encoded
                /\ ~Scored(OriginalChanged[p])
                /\ Returned =>
                    /\ p \in DOMAIN RemainingChanged
                    /\ RemainingChanged[p] = OriginalChanged[p]
                    /\ p \notin DOMAIN Out.semantic_diff

\* C5 witness: a returned run with a number entry beside a string entry that
\* was moved to semantic_diff.
C5_Witness ==
    /\ Returned
    /\ \E p, q \in DOMAIN OriginalChanged :
            /\ ~StringPair(OriginalChanged[p])
            /\ p \in DOMAIN RemainingChanged
            /\ OnlyEquivalent(q)

\* The entries of values_changed that were not moved to semantic_diff as
\* Equivalent.
NotMoved ==
    {p \in DOMAIN OriginalChanged :
        ~HasStatus(Out.semantic_diff, p, "Equivalent (semantically)")}

\* C6: the returned structural_diff never holds values_changed as an empty
\* mapping: the key is absent when every entry was moved as Equivalent, and
\* present with exactly the remaining entries otherwise.
C6_NoEmptyCategory ==
    Returned =>
        /\ "values_changed" \in DOMAIN Out.structural_diff
                => Out.structural_diff["values_changed"] # EmptyMap
        /\ NotMoved = {} => "values_changed" \notin DOMAIN Out.structural_diff
        /\ NotMoved # {} =>
                /\ "values_changed" \in DOMAIN Out.structural_diff
                /\ Out.structural_diff["values_changed"]
                        = [p \in NotMoved |-> OriginalChanged[p]]

\* C6 witness: a returned run in which every entry of values_changed was
\* moved and the key is gone.
C6_Witness ==
    /\ Returned
    /\ OriginalChanged # EmptyMap
    /\ NotMoved = {}
    /\ "values_changed" \notin DOMAIN Out.structural_diff

\* C7: once model loading or encoding has raised, the caller has received
\* nothing; a value is received only from a run that reached its return with
\* the loop complete.
C7_NoPartialResult ==
    /\ pc = "raised" => result = << >>
    /\ result # << >> => (Returned /\ items = << >>)

\* C7 witness: encoding raised after an earlier pair was moved to
\* semantic_diff and deleted from values_changed.
C7_Witness ==
    /\ pc = "raised"
    /\ \E p \in DOMAIN semantic_diff :
            /\ semantic_diff[p].status = "Equivalent (semantically)"
            /\ p \notin DOMAIN ValuesChanged(structural_diff)

\* C8: comparing a document with itself encodes nothing, scores nothing and
\* returns an empty structural_diff and an empty semantic_diff.
C8_NoSelfDiff ==
    json1 = json2 =>
        /\ encoded = {}
        /\ cos_sim = EmptyMap
        /\ Returned =>
            /\ Out.structural_diff = EmptyMap
            /\ Out.semantic_diff = EmptyMap

\* C8 witness: a returned comparison of a document of strings and numbers
\* with itself.
C8_Witness ==
    /\ Returned
    /\ json1 = json2
    /\ \E p, q \in Paths : json1[p].type = "str" /\ json1[q].type = "int"

\* The loop of hybrid_json_compare run over the entries in the given order,
\* with the scores the model gave.
RECURSIVE RunLoop(_, _, _)
RunLoop(order, sd, sem) ==
    IF order = << >>
    THEN [sd |-> sd, sem |-> sem]
    ELSE LET path    == Head(order)
             changes == sd["values_changed"][path]
         IN  IF BothStrings(changes.old_value, changes.new_value)
             THEN LET c == Classify(sd, sem, path, changes,
                                    Score(changes), threshold)
                  IN  RunLoop(Tail(order), c.sd, c.sem)
             ELSE RunLoop(Tail(order), sd, sem)

\* The value returned when values_changed lists its items in the given order.
Reconcile(order) ==
    LET after == RunLoop(order, Original, EmptyMap)
    IN  ReturnValue(CleanUp(after.sd), after.sem)

\* C9: the returned value is the one every order of visiting the entries of
\* values_changed gives, with the same scores and the same threshold.
C9_OrderIndependent ==
    (Returned /\ OriginalChanged # EmptyMap) =>
        \A order \in Orders(DOMAIN OriginalChanged) :
            /\ SameDiff(Reconcile(order).structural_diff, Out.structural_diff)
            /\ Reconcile(order).semantic_diff = Out.semantic_diff

\* C9 witness: a returned run over two entries, one deleted from
\* values_changed during the loop and one kept.
C9_Witness ==
    /\ Returned
    /\ \E p, q \in DOMAIN OriginalChanged :
            ChangedInBoth(p) /\ OnlyEquivalent(q)
    /\ Cardinality(Orders(DOMAIN OriginalChanged)) > 1

\* C10: without a values_changed category semantic_diff is empty and the
\* structural diff is returned as DeepDiff gave it; in every run the other
\* categories stay as DeepDiff gave them, values_changed only loses entries
\* that are Equivalent in semantic_diff, and its key goes only when empty.
C10_Frame ==
    pc # "start" =>
        /\ \A c \in DOMAIN Original \ {"values_changed"} :
                /\ c \in DOMAIN structural_diff
                /\ structural_diff[c] = Original[c]
        /\ DOMAIN structural_diff \subseteq DOMAIN Original
        /\ \A p \in DOMAIN OriginalChanged :
                IF p \in DOMAIN ValuesChanged(structural_diff)
                THEN ValuesChanged(structural_diff)[p] = OriginalChanged[p]
                ELSE HasStatus(semantic_diff, p, "Equivalent (semantically)")
        /\ DOMAIN ValuesChanged(structural_diff) \subseteq DOMAIN OriginalChanged
        /\ ("values_changed" \in DOMAIN Original
                /\ "values_changed" \notin DOMAIN structural_diff)
                => \A p \in DOMAIN OriginalChanged :
                        HasStatus(semantic_diff, p, "Equivalent (semantically)")
        /\ (Returned /\ "values_changed" \notin DOMAIN Original) =>
                /\ Out.semantic_diff = EmptyMap
                /\ encoded = {}
                /\ SameDiff(Out.structural_diff, Original)
        /\ Returned => SameDiff(Out.structural_diff, structural_diff)

\* C10 witness: a returned run whose only value change was moved, the key
\* dropped, and an added item left as DeepDiff gave it.
C10_Witness ==
    /\ Returned
    /\ "dictionary_item_added" \in DOMAIN Out.structural_diff
    /\ "values_changed" \in DOMAIN Original
    /\ "values_changed" \notin DOMAIN Out.structural_diff

====
